---- MODULE Spec2Model ----
(***************************************************************************)
(* Drought_indicator_extraction_tutorial.ipynb as a state machine: one     *)
(* action per code cell, run top to bottom.  Earth Engine objects are      *)
(* modelled by their value at one pixel (an exact rational), their         *)
(* properties and an error flag that says whether evaluating the declared  *)
(* graph raises a semantic error on the server.                            *)
(***************************************************************************)
EXTENDS Integers, Sequences, FiniteSets, TLC

VARIABLES pc, defined, start_year, end_year, catalog, MODIS_NDVI,
          NDVI_Monthly, NDVI_mon_min, NDVI_mon_max, vci, vci_img,
          new_names, y, text, fps, video_vci, videoArgs, saved_gif, dur,
          out_gif, requests, errors

vars == <<pc, defined, start_year, end_year, catalog, MODIS_NDVI,
          NDVI_Monthly, NDVI_mon_min, NDVI_mon_max, vci, vci_img,
          new_names, y, text, fps, video_vci, videoArgs, saved_gif, dur,
          out_gif, requests, errors>>

(***************************************************************************)
(* Bounds of the model.                                                    *)
(***************************************************************************)
\* number of calendar years the catalogue holds, from FirstYear on
NumCatYears == 2
\* the yearly NDVI level of a catalogue year is drawn from 0..MaxLevel
MaxLevel == 1
\* fps is drawn from 1..MaxFps
MaxFps == 15

(***************************************************************************)
(* Program constants.                                                      *)
(***************************************************************************)
FirstYear == 2001
DaysPerYear == 365
MonthsPerYear == 12
CompositeDays == 16
ScaleDen == 10000
Percent == 100
MsPerSecond == 1000
PadWidth == 2
DoubleBits == 53

CatYears == FirstYear .. (FirstYear + NumCatYears - 1)

(***************************************************************************)
(* Python strings are sequences of one-character strings.                  *)
(***************************************************************************)
DigitChars == <<"0", "1", "2", "3", "4", "5", "6", "7", "8", "9">>

RECURSIVE StrNat(_)
StrNat(n) ==
  IF n < 10 THEN <<DigitChars[n + 1]>>
  ELSE StrNat(n \div 10) \o <<DigitChars[(n % 10) + 1]>>

\* str(int)
str(n) == IF n < 0 THEN <<"-">> \o StrNat(-n) ELSE StrNat(n)

\* s.rjust(width, fill)
RECURSIVE rjust(_, _, _)
rjust(s, width, fill) ==
  IF Len(s) >= width THEN s ELSE rjust(<<fill>> \o s, width, fill)

\* s.zfill(width): zeros go after a leading sign
zfill(s, width) ==
  IF Len(s) > 0 /\ s[1] \in {"-", "+"}
  THEN <<s[1]>> \o rjust(Tail(s), width - 1, "0")
  ELSE rjust(s, width, "0")

NDVI == <<"N", "D", "V", "I">>
VCI == <<"V", "C", "I">>
VCISuffix == <<"_", "V", "C", "I">>

\* range(a, b) of Python: a, a+1, ..., b-1
range(a, b) == [i \in 1 .. (IF b > a THEN b - a ELSE 0) |-> a + i - 1]

\* the concatenation of a list of lists
RECURSIVE Flatten(_)
Flatten(ll) ==
  IF ll = <<>> THEN <<>>
  ELSE IF Len(ll) = 1 THEN ll[1]
       ELSE LET h == Len(ll) \div 2
            IN Flatten(SubSeq(ll, 1, h)) \o Flatten(SubSeq(ll, h + 1, Len(ll)))

\* variant of create_band_names without the .rjust(2,'0') padding
create_band_names_nopad ==
  LET months == range(1, MonthsPerYear + 1)
      years == range(start_year, end_year + 1)
  IN Flatten([yi \in 1 .. Len(years) |->
        [mi \in 1 .. Len(months) |->
           str(months[mi]) \o <<"-">> \o str(years[yi]) \o VCISuffix]])

\* variant of create_band_names that takes the years from the loaded
\* collection instead of the configuration
create_band_names_fromdata ==
  LET months == range(1, MonthsPerYear + 1)
      ys == {MODIS_NDVI[i].time.year : i \in 1 .. Len(MODIS_NDVI)}
      lo == CHOOSE v \in ys : \A w \in ys : v <= w
      hi == CHOOSE v \in ys : \A w \in ys : w <= v
      years == range(lo, hi + 1)
  IN Flatten([yi \in 1 .. Len(years) |->
        [mi \in 1 .. Len(months) |->
           rjust(str(months[mi]), PadWidth, "0") \o <<"-">>
             \o str(years[yi]) \o VCISuffix]])

\* variant of create_band_names with the two loops exchanged (month-major)
create_band_names_monthmajor ==
  LET months == range(1, MonthsPerYear + 1)
      years == range(start_year, end_year + 1)
  IN Flatten([mi \in 1 .. Len(months) |->
        [yi \in 1 .. Len(years) |->
           rjust(str(months[mi]), PadWidth, "0") \o <<"-">>
             \o str(years[yi]) \o VCISuffix]])

\* variant of create_band_names that orders the two years before ranging
create_band_names_ordered ==
  LET months == range(1, MonthsPerYear + 1)
      lo == IF start_year <= end_year THEN start_year ELSE end_year
      hi == IF start_year <= end_year THEN end_year ELSE start_year
      years == range(lo, hi + 1)
  IN Flatten([yi \in 1 .. Len(years) |->
        [mi \in 1 .. Len(months) |->
           rjust(str(months[mi]), PadWidth, "0") \o <<"-">>
             \o str(years[yi]) \o VCISuffix]])

\* create_band_names(), reading the globals start_year and end_year
create_band_names ==
  LET months == range(1, MonthsPerYear + 1)
      years == range(start_year, end_year + 1)
  IN Flatten([yi \in 1 .. Len(years) |->
        [mi \in 1 .. Len(months) |->
           rjust(str(months[mi]), PadWidth, "0") \o <<"-">>
             \o str(years[yi]) \o VCISuffix]])

\* variant of the text labels that counts the months from 0
TextLabels_from0(yy) ==
  LET ns == range(0, MonthsPerYear)
  IN [i \in 1 .. Len(ns) |-> zfill(str(ns[i]), PadWidth) \o <<"-">> \o str(yy)]

\* text = [str(n).zfill(2) + "-" + str(y) for n in range(1, 13)]
TextLabels(yy) ==
  LET ns == range(1, MonthsPerYear + 1)
  IN [i \in 1 .. Len(ns) |-> zfill(str(ns[i]), PadWidth) \o <<"-">> \o str(yy)]

(***************************************************************************)
(* Pixel values are exact rationals <<n, d>> in lowest terms, d > 0.       *)
(***************************************************************************)
Abs(n) == IF n < 0 THEN -n ELSE n

RECURSIVE GCD(_, _)
GCD(a, b) == IF b = 0 THEN a ELSE GCD(b, a % b)

Rat(n, d) ==
  LET g == GCD(Abs(n), Abs(d))
      s == IF d < 0 THEN -1 ELSE 1
  IN <<(s * n) \div g, (s * d) \div g>>

RatAdd(a, b) == Rat(a[1] * b[2] + b[1] * a[2], a[2] * b[2])
RatSub(a, b) == Rat(a[1] * b[2] - b[1] * a[2], a[2] * b[2])
RatMul(a, b) == Rat(a[1] * b[1], a[2] * b[2])
\* Image.divide returns 0 where the divisor is 0
RatDiv(a, b) == IF b[1] = 0 THEN <<0, 1>> ELSE Rat(a[1] * b[2], a[2] * b[1])
RatLeq(a, b) == a[1] * b[2] <= b[1] * a[2]

RECURSIVE RatSum(_)
RatSum(vs) == IF vs = <<>> THEN <<0, 1>> ELSE RatAdd(Head(vs), RatSum(Tail(vs)))

RECURSIVE RatMin(_)
RatMin(vs) ==
  IF Len(vs) = 1 THEN vs[1]
  ELSE LET r == RatMin(Tail(vs)) IN IF RatLeq(vs[1], r) THEN vs[1] ELSE r

RECURSIVE RatMax(_)
RatMax(vs) ==
  IF Len(vs) = 1 THEN vs[1]
  ELSE LET r == RatMax(Tail(vs)) IN IF RatLeq(r, vs[1]) THEN vs[1] ELSE r

RatMean(vs) == RatDiv(RatSum(vs), <<Len(vs), 1>>)

(***************************************************************************)
(* ee.Image: bands (name and pixel value, in order), properties, the       *)
(* acquisition date (system:time_start) when it has one, and err: TRUE     *)
(* when evaluating the image raises an error on the server.                *)
(***************************************************************************)
NoProps == [k \in {} |-> 0]
NoTime == [year |-> 0, month |-> 0]

Image(bands, props, time, err) ==
  [bands |-> bands, props |-> props, time |-> time, err |-> err]

HasBand(img, name) == \E i \in 1 .. Len(img.bands) : img.bands[i].name = name
BandVal(img, name) ==
  img.bands[CHOOSE i \in 1 .. Len(img.bands) : img.bands[i].name = name].val
AnyErr(col) == \E i \in 1 .. Len(col) : col[i].err

\* ee.List.sequence(a, b)
ListSequence(a, b) == [i \in 1 .. (IF b >= a THEN b - a + 1 ELSE 0) |-> a + i - 1]

\* ee.Filter.calendarRange(lo, hi, field) on system:time_start
FilterCalendarRange(col, lo, hi, field) ==
  SelectSeq(col, LAMBDA img :
    img.time # NoTime /\ lo <= img.time[field] /\ img.time[field] <= hi)

\* variant of the filter below: ee.Filter.lte(name, value)
FilterLte(col, name, value) ==
  SelectSeq(col, LAMBDA img :
    name \in DOMAIN img.props /\ img.props[name] <= value)

\* ee.Filter.eq(name, value) on a property
FilterEq(col, name, value) ==
  SelectSeq(col, LAMBDA img :
    name \in DOMAIN img.props /\ img.props[name] = value)

\* the per-pixel values of band `name` over the images of col that have it
BandValues(col, name) ==
  LET with == SelectSeq(col, LAMBDA img : HasBand(img, name))
  IN [i \in 1 .. Len(with) |-> BandVal(with[i], name)]

\* ImageCollection.mean() / .min() / .max(): the bands are those of the first
\* image; an empty collection reduces to an image without bands.  The result
\* has neither the properties nor the date of its inputs.
Reduce(col, Op(_)) ==
  LET names == IF col = <<>> THEN <<>> ELSE col[1].bands
  IN Image([i \in 1 .. Len(names) |->
              [name |-> names[i].name, val |-> Op(BandValues(col, names[i].name))]],
           NoProps, NoTime, AnyErr(col))

Mean(col) == Reduce(col, RatMean)
Min(col) == Reduce(col, RatMin)
Max(col) == Reduce(col, RatMax)

\* image.set(name, value)
SetProp(img, name, value) ==
  [img EXCEPT !.props =
     [k \in DOMAIN img.props \cup {name} |-> IF k = name THEN value ELSE img.props[k]]]

\* image.multiply(c): the values change, the properties are not carried over
Multiply(img, c) ==
  Image([i \in 1 .. Len(img.bands) |->
           [name |-> img.bands[i].name, val |-> RatMul(img.bands[i].val, c)]],
        NoProps, NoTime, img.err)

\* dst.copyProperties(src, names)
CopyProperties(dst, src, names) ==
  [dst EXCEPT !.props =
     [k \in DOMAIN dst.props \cup (names \cap DOMAIN src.props) |->
        IF k \in names \cap DOMAIN src.props THEN src.props[k] ELSE dst.props[k]]]

\* image.select(name): an error when no band matches
Select(img, name) ==
  IF HasBand(img, name)
  THEN [img EXCEPT !.bands = <<[name |-> name, val |-> BandVal(img, name)]>>]
  ELSE [img EXCEPT !.bands = <<>>, !.err = TRUE]

\* image.select([old], [new]): select and rename
SelectAs(img, old, new) ==
  IF HasBand(img, old)
  THEN [img EXCEPT !.bands = <<[name |-> new, val |-> BandVal(img, old)]>>]
  ELSE [img EXCEPT !.bands = <<>>, !.err = TRUE]

\* a.subtract(b), a.divide(b) on single-band images: the band keeps a's name
Binary(a, b, Op(_, _)) ==
  IF a.bands = <<>> \/ b.bands = <<>>
  THEN Image(<<>>, NoProps, NoTime, TRUE)
  ELSE Image(<<[name |-> a.bands[1].name, val |-> Op(a.bands[1].val, b.bands[1].val)]>>,
             NoProps, NoTime, a.err \/ b.err)

Subtract(a, b) == Binary(a, b, RatSub)
Divide(a, b) == Binary(a, b, RatDiv)

\* collection.map(f)
MapCol(col, F(_)) == [i \in 1 .. Len(col) |-> F(col[i])]

\* collection.toBands(): band i-1 of image i is named "<i-1>_<band>"
ToBands(col) ==
  Image(Flatten([i \in 1 .. Len(col) |->
           [b \in 1 .. Len(col[i].bands) |->
              [name |-> str(i - 1) \o <<"_">> \o col[i].bands[b].name,
               val |-> col[i].bands[b].val]]]),
        NoProps, NoTime, AnyErr(col))

\* image.bandNames()
BandNames(img) == [i \in 1 .. Len(img.bands) |-> img.bands[i].name]

\* image.select(old_names, new_names) with two lists
SelectRename(img, old, new) ==
  IF Len(old) # Len(new) \/ \E i \in 1 .. Len(old) : ~HasBand(img, old[i])
  THEN [img EXCEPT !.bands = <<>>, !.err = TRUE]
  ELSE [img EXCEPT !.bands =
          [i \in 1 .. Len(old) |-> [name |-> new[i], val |-> BandVal(img, old[i])]]]

(***************************************************************************)
(* The catalogue "MODIS/061/MOD13A2": one composite every 16 days of each  *)
(* catalogue year, each dated by its first day.  The catalogue is input:   *)
(* the values below are one bounded family of it.  `levels` gives each     *)
(* year its NDVI level and `first` the first composite the first year has. *)
(***************************************************************************)
MonthEnds == <<31, 59, 90, 120, 151, 181, 212, 243, 273, 304, 334, 365>>
MonthOfDay(d) == CHOOSE m \in 1 .. MonthsPerYear :
  d <= MonthEnds[m] /\ (m = 1 \/ d > MonthEnds[m - 1])

CompositesPerYear == (DaysPerYear + CompositeDays - 1) \div CompositeDays
DayOfComposite(i) == 1 + CompositeDays * i

\* the raw (scaled by 10000) NDVI of composite i in a year of level lev
RawNDVI(i, lev) ==
  (IF 2 * i <= CompositesPerYear THEN i ELSE CompositesPerYear - 1 - i) * 300
    - 500 + 1500 * lev + 100 * ((i + 2 * lev) % 3)

EVI == <<"E", "V", "I">>

CatalogYear(yr, lev, first) ==
  [k \in 1 .. (CompositesPerYear - first) |->
     LET i == first + k - 1
     IN Image(<<[name |-> NDVI, val |-> <<RawNDVI(i, lev), 1>>],
                [name |-> EVI, val |-> <<RawNDVI(i, lev) + 7, 1>>]>>,
              NoProps,
              [year |-> yr, month |-> MonthOfDay(DayOfComposite(i))],
              FALSE)]

Catalog(levels, first) ==
  Flatten([k \in 1 .. NumCatYears |->
     CatalogYear(FirstYear + k - 1, levels[FirstYear + k - 1],
                 IF k = 1 THEN first ELSE 0)])

(***************************************************************************)
(* The functions the notebook defines.                                     *)
(***************************************************************************)
\* ee.ImageCollection.fromImages(list): a list element that cannot be
\* evaluated makes every evaluation of the collection raise
FromImages(list) ==
  IF AnyErr(list) THEN [i \in 1 .. Len(list) |-> [list[i] EXCEPT !.err = TRUE]]
  ELSE list

\* variant of col2monthly whose monthly mean is not restricted to the year
col2monthly_anyyear(col) ==
  LET months == ListSequence(1, MonthsPerYear)
      years == ListSequence(start_year, end_year)
      monthly(yv, m) ==
        SetProp(SetProp(
          Mean(FilterCalendarRange(col, m, m, "month")),
          "month", m), "year", yv)
      yearly(yv) == [mi \in 1 .. Len(months) |-> monthly(yv, months[mi])]
  IN FromImages(Flatten([yi \in 1 .. Len(years) |-> yearly(years[yi])]))

col2monthly(col) ==
  LET months == ListSequence(1, MonthsPerYear)
      years == ListSequence(start_year, end_year)
      monthly(yv, m) ==
        SetProp(SetProp(
          Mean(FilterCalendarRange(FilterCalendarRange(col, yv, yv, "year"),
                                   m, m, "month")),
          "month", m), "year", yv)
      yearly(yv) == [mi \in 1 .. Len(months) |-> monthly(yv, months[mi])]
  IN FromImages(Flatten([yi \in 1 .. Len(years) |-> yearly(years[yi])]))

\* ee.Number(m).format('%02d')
Format02d(m) == rjust(str(m), PadWidth, "0")

\* variant of min_monthly that kept .max() from the function it was copied to
min_monthly_max(col) ==
  LET months == ListSequence(1, MonthsPerYear)
      monthly(m) ==
        SetProp(SetProp(Max(FilterCalendarRange(col, m, m, "month")),
                        "month", m), "ID", Format02d(m))
  IN FromImages([mi \in 1 .. Len(months) |-> monthly(months[mi])])

min_monthly(col) ==
  LET months == ListSequence(1, MonthsPerYear)
      monthly(m) ==
        SetProp(SetProp(Min(FilterCalendarRange(col, m, m, "month")),
                        "month", m), "ID", Format02d(m))
  IN FromImages([mi \in 1 .. Len(months) |-> monthly(months[mi])])

\* variant of max_monthly that kept .mean() from col2monthly
max_monthly_mean(col) ==
  LET months == ListSequence(1, MonthsPerYear)
      monthly(m) ==
        SetProp(SetProp(Mean(FilterCalendarRange(col, m, m, "month")),
                        "month", m), "ID", Format02d(m))
  IN FromImages([mi \in 1 .. Len(months) |-> monthly(months[mi])])

max_monthly(col) ==
  LET months == ListSequence(1, MonthsPerYear)
      monthly(m) ==
        SetProp(SetProp(Max(FilterCalendarRange(col, m, m, "month")),
                        "month", m), "ID", Format02d(m))
  IN FromImages([mi \in 1 .. Len(months) |-> monthly(months[mi])])

\* variant of the scaling below without .copyProperties(...)
Scale_noprops(image) == Multiply(image, <<1, ScaleDen>>)

\* lambda image: image.multiply(0.0001).copyProperties(image, image.propertyNames())
Scale(image) ==
  CopyProperties(Multiply(image, <<1, ScaleDen>>), image, DOMAIN image.props)

\* variant of vci_calc that divides by the maximum instead of the range
vci_calc_ratio(col, max_vals, min_vals) ==
  LET months == ListSequence(1, MonthsPerYear)
      years == ListSequence(start_year, end_year)
      month_map(yv, m) ==
        LET x == Mean(FilterEq(FilterEq(col, "year", yv), "month", m))
            max_x == Mean(FilterEq(max_vals, "month", m))
            min_x == Mean(FilterEq(min_vals, "month", m))
        IN SetProp(SetProp(
             Multiply(Divide(Subtract(Select(x, NDVI), Select(min_x, NDVI)),
                             Select(max_x, NDVI)),
                      <<Percent, 1>>),
             "month", m), "year", yv)
      year_map(yv) == [mi \in 1 .. Len(months) |-> month_map(yv, months[mi])]
  IN FromImages(Flatten([yi \in 1 .. Len(years) |-> year_map(years[yi])]))

\* variant of vci_calc without the division by the range
vci_calc_nodivide(col, max_vals, min_vals) ==
  LET months == ListSequence(1, MonthsPerYear)
      years == ListSequence(start_year, end_year)
      month_map(yv, m) ==
        LET x == Mean(FilterEq(FilterEq(col, "year", yv), "month", m))
            max_x == Mean(FilterEq(max_vals, "month", m))
            min_x == Mean(FilterEq(min_vals, "month", m))
        IN SetProp(SetProp(
             Multiply(Subtract(Select(x, NDVI), Select(min_x, NDVI)),
                      <<Percent, 1>>),
             "month", m), "year", yv)
      year_map(yv) == [mi \in 1 .. Len(months) |-> month_map(yv, months[mi])]
  IN FromImages(Flatten([yi \in 1 .. Len(years) |-> year_map(years[yi])]))

vci_calc(col, max_vals, min_vals) ==
  LET months == ListSequence(1, MonthsPerYear)
      years == ListSequence(start_year, end_year)
      month_map(yv, m) ==
        LET x == Mean(FilterEq(FilterEq(col, "year", yv), "month", m))
            max_x == Mean(FilterEq(max_vals, "month", m))
            min_x == Mean(FilterEq(min_vals, "month", m))
        IN SetProp(SetProp(
             Multiply(Divide(Subtract(Select(x, NDVI), Select(min_x, NDVI)),
                             Subtract(Select(max_x, NDVI), Select(min_x, NDVI))),
                      <<Percent, 1>>),
             "month", m), "year", yv)
      year_map(yv) == [mi \in 1 .. Len(months) |-> month_map(yv, months[mi])]
  IN FromImages(Flatten([yi \in 1 .. Len(years) |-> year_map(years[yi])]))

(***************************************************************************)
(* Python floats are IEEE-754 doubles.  A positive double m * 2^(exp-52),  *)
(* 2^52 <= m < 2^53, is [sig, exp] with sig the 54-bit number 2*m written  *)
(* in base 2^9, most significant limb first.  Division and multiplication  *)
(* round to nearest, ties to even.                                         *)
(***************************************************************************)
RECURSIVE Pow2(_)
Pow2(k) == IF k = 0 THEN 1 ELSE 2 * Pow2(k - 1)

LimbBits == (DoubleBits + 1) \div 6
Base == Pow2(LimbBits)
NumLimbs == (DoubleBits + 1) \div LimbBits

RECURSIVE BitLen(_)
BitLen(n) == IF n = 0 THEN 0 ELSE 1 + BitLen(n \div 2)

\* the limbs of a natural number, without leading zero limbs
RECURSIVE BigOfNat(_)
BigOfNat(n) == IF n = 0 THEN <<>> ELSE BigOfNat(n \div Base) \o <<n % Base>>

BigBitLen(a) == IF a = <<>> THEN 0 ELSE LimbBits * (Len(a) - 1) + BitLen(a[1])

\* a * k + carry for a small k
RECURSIVE BigMulSmall(_, _, _)
BigMulSmall(a, k, carry) ==
  IF a = <<>> THEN BigOfNat(carry)
  ELSE LET n == Len(a)
           t == a[n] * k + carry
       IN BigMulSmall(SubSeq(a, 1, n - 1), k, t \div Base) \o <<t % Base>>

\* a \div 2 with as many limbs as a, given the bit `r` carried in from above
RECURSIVE BigHalf(_, _)
BigHalf(a, r) ==
  IF a = <<>> THEN <<>>
  ELSE LET cur == r * Base + a[1]
       IN <<cur \div 2>> \o BigHalf(Tail(a), cur % 2)

BigStrip(a) ==
  IF a # <<>> /\ a[1] = 0 THEN Tail(a) ELSE a

\* a \div 2^s, and whether a nonzero bit was shifted out
RECURSIVE ShiftRightSticky(_, _, _)
ShiftRightSticky(a, s, sticky) ==
  IF s = 0 THEN [big |-> a, sticky |-> sticky]
  ELSE IF s >= LimbBits
       THEN ShiftRightSticky(SubSeq(a, 1, Len(a) - 1), s - LimbBits,
                             sticky \/ a[Len(a)] # 0)
       ELSE ShiftRightSticky(BigStrip(BigHalf(a, 0)), s - 1,
                             sticky \/ a[Len(a)] % 2 = 1)

\* a * 2^s
RECURSIVE ShiftLeft(_, _)
ShiftLeft(a, s) ==
  IF s = 0 THEN a
  ELSE IF s >= LimbBits THEN ShiftLeft(a \o <<0>>, s - LimbBits)
       ELSE BigMulSmall(a, Pow2(s), 0)

\* the double nearest to x * 2^(e - 53), for a 54-bit x (so the last bit of x
\* is the first bit that does not fit) followed, when `sticky`, by more
\* nonzero bits
RoundNearestEven(x, e, sticky) ==
  LET n == Len(x)
      guard == x[n] % 2
      odd == (x[n] \div 2) % 2 = 1
  IN IF guard = 0 THEN [sig |-> x, exp |-> e]
     ELSE IF sticky \/ odd
          THEN LET up == BigMulSmall(x, 1, 1)
               IN IF BigBitLen(up) > DoubleBits + 1
                  THEN [sig |-> BigStrip(BigHalf(up, 0)), exp |-> e + 1]
                  ELSE [sig |-> up, exp |-> e]
          ELSE [sig |-> [x EXCEPT ![n] = x[n] - 1], exp |-> e]

\* float(n) for a positive int n below 2^31
FloatOfNat(n) ==
  [sig |-> ShiftLeft(BigOfNat(n), DoubleBits + 1 - BitLen(n)), exp |-> BitLen(n) - 1]

\* long division: n more base-2^9 digits of r/d for 0 <= r < d, and the remainder
RECURSIVE DivDigits(_, _, _, _)
DivDigits(acc, r, d, n) ==
  IF n = 0 THEN [digits |-> acc, rem |-> r]
  ELSE DivDigits(acc \o <<(r * Base) \div d>>, (r * Base) % d, d, n - 1)

\* the largest e >= 0 with den * 2^e <= num, for num >= den
RECURSIVE FloorLog2Ratio(_, _)
FloorLog2Ratio(num, den) ==
  IF 2 * den <= num THEN 1 + FloorLog2Ratio(num, 2 * den) ELSE 0

\* the smallest k >= 0 with num * 2^k >= den
RECURSIVE ShiftToReach(_, _)
ShiftToReach(num, den) ==
  IF num >= den THEN 0 ELSE 1 + ShiftToReach(2 * num, den)

\* variant of the division below: 1000 // fps, an int
FloorDivInts(num, den) == FloatOfNat(num \div den)

\* num / den for positive ints: Python's true division, correctly rounded
TrueDivInts(num, den) ==
  LET e == IF num >= den THEN FloorLog2Ratio(num, den) ELSE 0 - ShiftToReach(num, den)
      n0 == IF e >= 0 THEN num ELSE num * Pow2(0 - e)
      d0 == IF e >= 0 THEN den * Pow2(e) ELSE den
      \* n0/d0 = 1 + r/d0; q = the first 54 bits of the fraction r/d0
      q == DivDigits(<<>>, n0 - d0, d0, NumLimbs)
      frac == BigHalf(q.digits, 0)
      x == [frac EXCEPT ![1] = frac[1] + Pow2(LimbBits - 1)]
  IN RoundNearestEven(x, e, q.rem # 0 \/ q.digits[NumLimbs] % 2 = 1)

\* f * k for a double f and a positive int k (converted to a double exactly)
FloatMulInt(f, k) ==
  LET p == BigMulSmall(f.sig, k, 0)
      s == BigBitLen(p) - (DoubleBits + 1)
      x == ShiftRightSticky(p, s, FALSE)
  IN RoundNearestEven(x.big, f.exp + s, x.sticky)

(***************************************************************************)
(* The notebook.  pc is the next code cell to run; `defined` holds the     *)
(* names bound so far.  `requests` lists the evaluations the server was    *)
(* asked for and `errors` the errors reported to the user, each with the   *)
(* cell and the call that caused it.                                       *)
(***************************************************************************)
\* variant of the order of the cells: the rename cell run before the VCI cell
Cells_rename_first ==
  <<"imports", "auth", "config", "load", "def_col2monthly", "monthly",
    "def_minmax", "minmax", "def_vci", "rename", "vci", "map",
    "animate", "label", "done">>

Cells == <<"imports", "auth", "config", "load", "def_col2monthly", "monthly",
           "def_minmax", "minmax", "def_vci", "vci", "rename", "map",
           "animate", "label", "done">>

CellIndex(c) == CHOOSE i \in 1 .. Len(Cells) : Cells[i] = c
NextCell(c) == Cells[CellIndex(c) + 1]
\* cell c has been run
Ran(c) == CellIndex(pc) > CellIndex(c)

\* the names bound by earlier cells that cell c reads when it runs, the ones
\* read by the functions it calls included
Reads(c) ==
  CASE c = "auth" -> {"ee"}
    [] c = "config" -> {"ee"}
    [] c = "load" -> {"ee", "roi"}
    [] c = "monthly" -> {"ee", "col2monthly", "MODIS_NDVI", "start_year", "end_year"}
    [] c = "minmax" -> {"ee", "min_monthly", "max_monthly", "MODIS_NDVI"}
    [] c = "vci" -> {"ee", "vci_calc", "NDVI_Monthly", "NDVI_mon_max", "NDVI_mon_min",
                     "start_year", "end_year"}
    [] c = "rename" -> {"vci", "start_year", "end_year"}
    [] c = "map" -> {"geemap", "vci_img"}
    [] c = "animate" -> {"ee", "geemap", "os", "roi", "vci"}
    [] c = "label" -> {"geemap", "os", "fps", "saved_gif", "text"}
    [] OTHER -> {}

\* the cells whose "#....getInfo()" line is uncommented: none
GetInfoMonthly == {"monthly"}
GetInfoCells == {}

EmptyImage == Image(<<>>, NoProps, NoTime, FALSE)
NoArgs == [framesPerSecond |-> 0, min |-> 0, max |-> 0]
NoFloat == [sig |-> <<>>, exp |-> 0]
FirstComposites == {0, 3}

Init ==
  /\ pc = "imports"
  /\ defined = {}
  /\ start_year = 0
  /\ end_year = 0
  /\ catalog \in {Catalog(lv, f) : lv \in [CatYears -> 0 .. MaxLevel], f \in FirstComposites}
  /\ MODIS_NDVI = <<>>
  /\ NDVI_Monthly = <<>>
  /\ NDVI_mon_min = <<>>
  /\ NDVI_mon_max = <<>>
  /\ vci = <<>>
  /\ vci_img = EmptyImage
  /\ new_names = <<>>
  /\ y = 0
  /\ text = <<>>
  /\ fps = 0
  /\ video_vci = <<>>
  /\ videoArgs = NoArgs
  /\ saved_gif = <<>>
  /\ dur = NoFloat
  /\ out_gif = <<>>
  /\ requests = <<>>
  /\ errors = <<>>

\* the requests and errors after the call `call` of cell c asked the server
\* to evaluate an object whose evaluation raises iff bad
Evaluated(c, call, bad) ==
  [requests |-> Append(requests, [cell |-> c, call |-> call]),
   errors |-> IF bad THEN Append(errors, [cell |-> c, call |-> call, kind |-> "ee"])
              ELSE errors]

\* variant in which declaring an operation runs it: a cell whose last object
\* raises iff bad reports the error itself
GetInfoEager(c, bad) ==
  /\ requests' = requests
  /\ errors' = IF bad THEN Append(errors, [cell |-> c, call |-> "declare", kind |-> "ee"])
               ELSE errors

\* a cell that ends with a commented "#X.getInfo()" on an object that raises iff bad
GetInfo(c, bad) ==
  IF c \in GetInfoCells
  THEN /\ requests' = Evaluated(c, "getInfo", bad).requests
       /\ errors' = Evaluated(c, "getInfo", bad).errors
  ELSE UNCHANGED <<requests, errors>>

RunImports ==
  /\ pc = "imports"
  /\ pc' = NextCell(pc)
  /\ defined' = defined \cup {"ee", "geemap", "os"}
  /\ UNCHANGED <<start_year, end_year, catalog, MODIS_NDVI, NDVI_Monthly,
                 NDVI_mon_min, NDVI_mon_max, vci, vci_img, new_names, y, text,
                 fps, video_vci, videoArgs, saved_gif, dur, out_gif, requests, errors>>

\* ee.Authenticate(); ee.Initialize(project=...)
RunAuth ==
  /\ pc = "auth"
  /\ pc' = NextCell(pc)
  /\ UNCHANGED <<defined, start_year, end_year, catalog, MODIS_NDVI, NDVI_Monthly,
                 NDVI_mon_min, NDVI_mon_max, vci, vci_img, new_names, y, text,
                 fps, video_vci, videoArgs, saved_gif, dur, out_gif, requests, errors>>

RunConfig ==
  /\ pc = "config"
  /\ pc' = NextCell(pc)
  /\ \E sy \in CatYears, ey \in CatYears :
       /\ start_year' = sy
       /\ end_year' = ey
  /\ defined' = defined \cup {"start_year", "end_year", "roi"}
  /\ UNCHANGED <<catalog, MODIS_NDVI, NDVI_Monthly,
                 NDVI_mon_min, NDVI_mon_max, vci, vci_img, new_names, y, text,
                 fps, video_vci, videoArgs, saved_gif, dur, out_gif, requests, errors>>

\* image.clip(roi) at a pixel inside roi
Clip(image) == image

SelectNDVI(image) == Select(image, NDVI)

RunLoad ==
  /\ pc = "load"
  /\ pc' = NextCell(pc)
  /\ MODIS_NDVI' = MapCol(MapCol(catalog, SelectNDVI), Clip)
  /\ defined' = defined \cup {"MODIS_NDVI_raw", "MODIS_NDVI"}
  /\ GetInfo(pc, AnyErr(MODIS_NDVI'))
  /\ UNCHANGED <<start_year, end_year, catalog, NDVI_Monthly,
                 NDVI_mon_min, NDVI_mon_max, vci, vci_img, new_names, y, text,
                 fps, video_vci, videoArgs, saved_gif, dur, out_gif>>

RunDefCol2monthly ==
  /\ pc = "def_col2monthly"
  /\ pc' = NextCell(pc)
  /\ defined' = defined \cup {"col2monthly"}
  /\ UNCHANGED <<start_year, end_year, catalog, MODIS_NDVI, NDVI_Monthly,
                 NDVI_mon_min, NDVI_mon_max, vci, vci_img, new_names, y, text,
                 fps, video_vci, videoArgs, saved_gif, dur, out_gif, requests, errors>>

RunMonthly ==
  /\ pc = "monthly"
  /\ pc' = NextCell(pc)
  /\ NDVI_Monthly' = MapCol(col2monthly(MODIS_NDVI), Scale)
  /\ defined' = defined \cup {"NDVI_Monthly"}
  /\ GetInfo(pc, AnyErr(NDVI_Monthly'))
  /\ UNCHANGED <<start_year, end_year, catalog, MODIS_NDVI,
                 NDVI_mon_min, NDVI_mon_max, vci, vci_img, new_names, y, text,
                 fps, video_vci, videoArgs, saved_gif, dur, out_gif>>

RunDefMinMax ==
  /\ pc = "def_minmax"
  /\ pc' = NextCell(pc)
  /\ defined' = defined \cup {"min_monthly", "max_monthly"}
  /\ UNCHANGED <<start_year, end_year, catalog, MODIS_NDVI, NDVI_Monthly,
                 NDVI_mon_min, NDVI_mon_max, vci, vci_img, new_names, y, text,
                 fps, video_vci, videoArgs, saved_gif, dur, out_gif, requests, errors>>

RunMinMax ==
  /\ pc = "minmax"
  /\ pc' = NextCell(pc)
  /\ NDVI_mon_min' = MapCol(min_monthly(MODIS_NDVI), Scale)
  /\ NDVI_mon_max' = MapCol(max_monthly(MODIS_NDVI), Scale)
  /\ defined' = defined \cup {"NDVI_mon_min", "NDVI_mon_max"}
  /\ GetInfo(pc, AnyErr(NDVI_mon_max'))
  /\ UNCHANGED <<start_year, end_year, catalog, MODIS_NDVI, NDVI_Monthly,
                 vci, vci_img, new_names, y, text,
                 fps, video_vci, videoArgs, saved_gif, dur, out_gif>>

RunDefVci ==
  /\ pc = "def_vci"
  /\ pc' = NextCell(pc)
  /\ defined' = defined \cup {"vci_calc"}
  /\ UNCHANGED <<start_year, end_year, catalog, MODIS_NDVI, NDVI_Monthly,
                 NDVI_mon_min, NDVI_mon_max, vci, vci_img, new_names, y, text,
                 fps, video_vci, videoArgs, saved_gif, dur, out_gif, requests, errors>>

RenameVCI(image) == SelectAs(image, NDVI, VCI)

RunVci ==
  /\ pc = "vci"
  /\ pc' = NextCell(pc)
  /\ vci' = MapCol(vci_calc(NDVI_Monthly, NDVI_mon_max, NDVI_mon_min), RenameVCI)
  /\ defined' = defined \cup {"vci"}
  /\ GetInfo(pc, AnyErr(vci'))
  /\ UNCHANGED <<start_year, end_year, catalog, MODIS_NDVI, NDVI_Monthly,
                 NDVI_mon_min, NDVI_mon_max, vci_img, new_names, y, text,
                 fps, video_vci, videoArgs, saved_gif, dur, out_gif>>

RunRename ==
  /\ pc = "rename"
  /\ pc' = NextCell(pc)
  /\ new_names' = create_band_names
  /\ vci_img' = SelectRename(ToBands(vci), BandNames(ToBands(vci)), create_band_names)
  /\ defined' = defined \cup {"vci_img", "original_names", "create_band_names", "new_names"}
  /\ UNCHANGED <<start_year, end_year, catalog, MODIS_NDVI, NDVI_Monthly,
                 NDVI_mon_min, NDVI_mon_max, vci, y, text,
                 fps, video_vci, videoArgs, saved_gif, dur, out_gif, requests, errors>>

\* Map = geemap.Map(); Map.addLayer(vci_img, {}, 'VCI')
RunMap ==
  /\ pc = "map"
  /\ pc' = NextCell(pc)
  /\ requests' = Evaluated(pc, "addLayer", vci_img.err).requests
  /\ errors' = Evaluated(pc, "addLayer", vci_img.err).errors
  /\ defined' = defined \cup {"Map"}
  /\ UNCHANGED <<start_year, end_year, catalog, MODIS_NDVI, NDVI_Monthly,
                 NDVI_mon_min, NDVI_mon_max, vci, vci_img, new_names, y, text,
                 fps, video_vci, videoArgs, saved_gif, dur, out_gif>>

\* the frames geemap.download_ee_video writes: one per image, in order; no
\* file when the collection cannot be evaluated or is empty
Frames(col) ==
  IF AnyErr(col) THEN <<>>
  ELSE [i \in 1 .. Len(col) |->
          [month |-> col[i].props["month"], year |-> col[i].props["year"],
           value |-> col[i].bands[1].val, label |-> <<>>]]

RunAnimate ==
  /\ pc = "animate"
  /\ pc' = NextCell(pc)
  /\ \E yy \in CatYears, f \in 1 .. MaxFps :
       LET video == FilterEq(vci, "year", yy)
           bad == AnyErr(video) \/ video = <<>>
       IN /\ y' = yy
          /\ text' = TextLabels(yy)
          /\ fps' = f
          /\ video_vci' = video
          /\ videoArgs' = [framesPerSecond |-> f, min |-> 0, max |-> Percent]
          /\ saved_gif' = Frames(video)
          /\ requests' = Evaluated(pc, "download_ee_video", bad).requests
          /\ errors' = Evaluated(pc, "download_ee_video", bad).errors
  /\ defined' = defined \cup {"y", "text", "fps", "video_vci", "aoi", "videoArgs", "saved_gif"}
  /\ UNCHANGED <<start_year, end_year, catalog, MODIS_NDVI, NDVI_Monthly,
                 NDVI_mon_min, NDVI_mon_max, vci, vci_img, new_names, dur, out_gif>>

\* geemap.add_text_to_gif(saved_gif, out_gif, text_sequence=text, duration=dur):
\* label i goes on frame i; nothing is written when the input file is missing
\* or the number of labels differs from the number of frames
AddTextToGif(in_gif, labels) ==
  IF in_gif = <<>> \/ Len(labels) # Len(in_gif) THEN <<>>
  ELSE [i \in 1 .. Len(in_gif) |-> [in_gif[i] EXCEPT !.label = labels[i]]]

RunLabel ==
  /\ pc = "label"
  /\ pc' = NextCell(pc)
  /\ dur' = TrueDivInts(MsPerSecond, fps)
  /\ out_gif' = AddTextToGif(saved_gif, text)
  /\ errors' = IF saved_gif = <<>>
               THEN Append(errors, [cell |-> pc, call |-> "add_text_to_gif", kind |-> "file"])
               ELSE errors
  /\ defined' = defined \cup {"out_gif", "dur", "colorbar"}
  /\ UNCHANGED <<start_year, end_year, catalog, MODIS_NDVI, NDVI_Monthly,
                 NDVI_mon_min, NDVI_mon_max, vci, vci_img, new_names, y, text,
                 fps, video_vci, videoArgs, saved_gif, requests>>

Next ==
  \/ RunImports
  \/ RunAuth
  \/ RunConfig
  \/ RunLoad
  \/ RunDefCol2monthly
  \/ RunMonthly
  \/ RunDefMinMax
  \/ RunMinMax
  \/ RunDefVci
  \/ RunVci
  \/ RunRename
  \/ RunMap
  \/ RunAnimate
  \/ RunLabel

Spec == Init /\ [][Next]_vars

(***************************************************************************)
(* Reading strings and the catalogue back, independently of the code.      *)
(***************************************************************************)
IsDigit(c) == \E d \in 0 .. 9 : DigitChars[d + 1] = c
DigitVal(c) == CHOOSE d \in 0 .. 9 : DigitChars[d + 1] = c

AllDigits(s) == \A i \in 1 .. Len(s) : IsDigit(s[i])

\* the number a string of digits writes
RECURSIVE ParseNat(_)
ParseNat(s) ==
  IF s = <<>> THEN 0
  ELSE 10 * ParseNat(SubSeq(s, 1, Len(s) - 1)) + DigitVal(s[Len(s)])

\* s is the decimal numeral of a positive number: digits, no leading zero
IsDecimal(s) == Len(s) >= 1 /\ AllDigits(s) /\ s[1] # "0"

\* s is two digits, '-', a decimal numeral
IsMonthYear(s) ==
  /\ Len(s) >= 4
  /\ IsDigit(s[1]) /\ IsDigit(s[2])
  /\ s[3] = "-"
  /\ IsDecimal(SubSeq(s, 4, Len(s)))

MonthIn(s) == 10 * DigitVal(s[1]) + DigitVal(s[2])
YearIn(s) == ParseNat(SubSeq(s, 4, Len(s)))

\* s is 'mm-yyyy_VCI'
IsBandName(s) ==
  /\ Len(s) > 4
  /\ SubSeq(s, Len(s) - 3, Len(s)) = <<"_", "V", "C", "I">>
  /\ IsMonthYear(SubSeq(s, 1, Len(s) - 4))

NameMonth(s) == MonthIn(SubSeq(s, 1, Len(s) - 4))
NameYear(s) == YearIn(SubSeq(s, 1, Len(s) - 4))

NumYears == IF end_year >= start_year THEN end_year - start_year + 1 ELSE 0
\* the place of (yr, m) in a year-major list over start_year..end_year
Slot(yr, m) == (yr - start_year) * MonthsPerYear + m

\* the raw NDVI values the catalogue holds for the composites that `In` accepts
RawValues(In(_)) ==
  LET hit == SelectSeq(catalog, LAMBDA img : In(img.time))
  IN [i \in 1 .. Len(hit) |-> hit[i].bands[1].val[1]]

RawOfMonth(yr, m) == RawValues(LAMBDA t : t.year = yr /\ t.month = m)
RawOfCalendarMonth(m) == RawValues(LAMBDA t : t.month = m)

RECURSIVE SumInts(_)
SumInts(vs) == IF vs = <<>> THEN 0 ELSE vs[1] + SumInts(Tail(vs))

IsLeast(v, vs) ==
  (\E i \in 1 .. Len(vs) : vs[i] = v) /\ (\A i \in 1 .. Len(vs) : v <= vs[i])
IsGreatest(v, vs) ==
  (\E i \in 1 .. Len(vs) : vs[i] = v) /\ (\A i \in 1 .. Len(vs) : v >= vs[i])
Least(vs) == CHOOSE v \in {vs[i] : i \in 1 .. Len(vs)} : IsLeast(v, vs)
Greatest(vs) == CHOOSE v \in {vs[i] : i \in 1 .. Len(vs)} : IsGreatest(v, vs)

(***************************************************************************)
(* C1.  create_band_names() returns, for start_year <= end_year, exactly   *)
(* 12*(end_year-start_year+1) pairwise distinct names, each of the form    *)
(* 'mm-yyyy_VCI' (two-digit month 1..12, '-', the decimal year, '_VCI');   *)
(* every (year, month) of the range appears exactly once.  Stated of       *)
(* new_names when the cell that calls create_band_names() has just run.    *)
(***************************************************************************)
C1_BandNames ==
  (pc = "map" /\ start_year <= end_year) =>
    /\ Len(new_names) = MonthsPerYear * (end_year - start_year + 1)
    /\ \A i, j \in 1 .. Len(new_names) : i # j => new_names[i] # new_names[j]
    /\ \A i \in 1 .. Len(new_names) :
         /\ IsBandName(new_names[i])
         /\ Len(new_names[i]) = PadWidth + 1 + Len(str(NameYear(new_names[i]))) + 4
         /\ NameMonth(new_names[i]) \in 1 .. MonthsPerYear
         /\ NameYear(new_names[i]) \in start_year .. end_year
    /\ \A yr \in start_year .. end_year, m \in 1 .. MonthsPerYear :
         Cardinality({i \in 1 .. Len(new_names) :
                        NameMonth(new_names[i]) = m /\ NameYear(new_names[i]) = yr}) = 1

C1_Witness ==
  /\ pc = "map"
  /\ start_year < end_year
  /\ Len(new_names) = 2 * MonthsPerYear
  /\ NameMonth(new_names[1]) = 1 /\ NameYear(new_names[1]) = start_year
  /\ NameMonth(new_names[Len(new_names)]) = MonthsPerYear
  /\ NameYear(new_names[Len(new_names)]) = end_year

(***************************************************************************)
(* C2.  For every year y of start_year..end_year and month m, the value    *)
(* vci_calc produces for (y, m) is (x - min_m) / (max_m - min_m) * 100,    *)
(* x the monthly NDVI of (y, m) and min_m, max_m the calendar-month        *)
(* minimum and maximum NDVI of month m; the image carries month = m and    *)
(* year = y.  Stated of vci when the cell that calls vci_calc has just     *)
(* run, with x, min_m and max_m read from the catalogue: x = total/count   *)
(* of the composites of (y, m), so the value n/d satisfies                 *)
(* n * count * (max - min) = d * 100 * (total - count * min).              *)
(***************************************************************************)
C2_VciFormula ==
  pc = "rename" =>
    /\ Len(vci) = MonthsPerYear * NumYears
    /\ \A yr \in start_year .. end_year, m \in 1 .. MonthsPerYear :
         LET img == vci[Slot(yr, m)]
             raw == RawOfMonth(yr, m)
             all == RawOfCalendarMonth(m)
         IN /\ img.props["month"] = m
            /\ img.props["year"] = yr
            /\ (~img.err /\ Greatest(all) # Least(all)) =>
                 /\ Len(img.bands) = 1
                 /\ img.bands[1].val[2] > 0
                 /\ img.bands[1].val[1] * Len(raw) * (Greatest(all) - Least(all))
                      = img.bands[1].val[2] * Percent
                          * (SumInts(raw) - Len(raw) * Least(all))

\* a value strictly between 0 and 100 has been produced
C2_Witness ==
  /\ pc = "rename"
  /\ \E i \in 1 .. Len(vci) :
       /\ ~vci[i].err
       /\ vci[i].bands[1].val[1] > 0
       /\ vci[i].bands[1].val[1] < Percent * vci[i].bands[1].val[2]

(***************************************************************************)
(* C3.  Every VCI value the pipeline produces lies in 0..100: for every    *)
(* year of start_year..end_year and month, the scaled calendar-month       *)
(* minimum <= the scaled monthly mean <= the scaled calendar-month         *)
(* maximum, and 0 <= VCI <= 100 (videoArgs later renders that range).      *)
(***************************************************************************)
C3_VciRange ==
  (pc = "rename" /\ ~AnyErr(vci)) =>
    \A yr \in start_year .. end_year, m \in 1 .. MonthsPerYear :
      LET v == vci[Slot(yr, m)].bands[1].val
          x == NDVI_Monthly[Slot(yr, m)].bands[1].val
          lo == NDVI_mon_min[m].bands[1].val
          hi == NDVI_mon_max[m].bands[1].val
      IN /\ lo[1] * x[2] <= x[1] * lo[2]
         /\ x[1] * hi[2] <= hi[1] * x[2]
         /\ 0 <= v[1]
         /\ v[1] <= Percent * v[2]

\* both ends of the range are produced, for a month whose maximum exceeds its minimum
C3_Witness ==
  /\ pc = "rename"
  /\ ~AnyErr(vci)
  /\ \E i, j \in 1 .. Len(vci) :
       /\ vci[i].props["month"] = vci[j].props["month"]
       /\ vci[i].bands[1].val = <<0, 1>>
       /\ vci[j].bands[1].val = <<Percent, 1>>

(***************************************************************************)
(* C4.  col2monthly(col) returns exactly one image for every (year, month) *)
(* with year in start_year..end_year and month in 1..12, ordered by year   *)
(* and then by month; the image of (y, m) is the mean of exactly the input *)
(* images dated in year y and month m (no band when there is none) and    *)
(* carries month = m and year = y.  Stated of col2monthly(MODIS_NDVI) when *)
(* the cell that calls it is about to run.                                 *)
(***************************************************************************)
C4_Col2Monthly ==
  pc = "monthly" =>
    LET out == col2monthly(MODIS_NDVI)
    IN /\ Len(out) = MonthsPerYear * NumYears
       /\ \A yr \in start_year .. end_year, m \in 1 .. MonthsPerYear :
            LET img == out[Slot(yr, m)]
                raw == RawOfMonth(yr, m)
            IN /\ DOMAIN img.props = {"month", "year"}
               /\ img.props["month"] = m
               /\ img.props["year"] = yr
               /\ IF raw = <<>> THEN img.bands = <<>>
                  ELSE /\ Len(img.bands) = 1
                       /\ img.bands[1].name = NDVI
                       /\ img.bands[1].val[2] > 0
                       /\ img.bands[1].val[1] * Len(raw)
                            = img.bands[1].val[2] * SumInts(raw)

\* two years, and a month whose two composites differ
C4_Witness ==
  /\ pc = "monthly"
  /\ start_year < end_year
  /\ Len(col2monthly(MODIS_NDVI)) = 2 * MonthsPerYear
  /\ \E m \in 1 .. MonthsPerYear :
       /\ Len(RawOfMonth(end_year, m)) = 2
       /\ RawOfMonth(end_year, m)[1] # RawOfMonth(end_year, m)[2]

(***************************************************************************)
(* C5.  min_monthly(col) and max_monthly(col) each return exactly 12       *)
(* images, one per calendar month 1..12 in ascending order; the image of   *)
(* month m is the minimum (maximum) over the input images of calendar      *)
(* month m of any year and carries month = m.  Stated of                   *)
(* min_monthly(MODIS_NDVI) and max_monthly(MODIS_NDVI) when the cell that  *)
(* calls them is about to run.                                             *)
(***************************************************************************)
C5_MinMaxMonthly ==
  pc = "minmax" =>
    LET lo == min_monthly(MODIS_NDVI)
        hi == max_monthly(MODIS_NDVI)
    IN /\ Len(lo) = MonthsPerYear
       /\ Len(hi) = MonthsPerYear
       /\ \A m \in 1 .. MonthsPerYear :
            LET all == RawOfCalendarMonth(m)
            IN /\ lo[m].props["month"] = m
               /\ hi[m].props["month"] = m
               /\ IF all = <<>> THEN lo[m].bands = <<>> /\ hi[m].bands = <<>>
                  ELSE /\ Len(lo[m].bands) = 1 /\ Len(hi[m].bands) = 1
                       /\ lo[m].bands[1].val = <<Least(all), 1>>
                       /\ hi[m].bands[1].val = <<Greatest(all), 1>>

\* a calendar month whose minimum and maximum come from different years
C5_Witness ==
  /\ pc = "minmax"
  /\ \E m \in 1 .. MonthsPerYear, y1, y2 \in CatYears :
       /\ y1 # y2
       /\ RawOfMonth(y1, m) # <<>> /\ RawOfMonth(y2, m) # <<>>
       /\ min_monthly(MODIS_NDVI)[m].bands[1].val = <<Least(RawOfMonth(y1, m)), 1>>
       /\ max_monthly(MODIS_NDVI)[m].bands[1].val = <<Greatest(RawOfMonth(y2, m)), 1>>
       /\ Least(RawOfMonth(y1, m)) < Least(RawOfMonth(y2, m))

\* the names and labels written out from the configuration values alone
TwoDigits(m) == <<DigitChars[(m \div 10) + 1], DigitChars[(m % 10) + 1]>>

FourDigits(yr) ==
  <<DigitChars[((yr \div 1000) % 10) + 1], DigitChars[((yr \div 100) % 10) + 1],
    DigitChars[((yr \div 10) % 10) + 1], DigitChars[(yr % 10) + 1]>>

NamesOf(sy, ey) ==
  [i \in 1 .. (IF ey >= sy THEN MonthsPerYear * (ey - sy + 1) ELSE 0) |->
     TwoDigits(((i - 1) % MonthsPerYear) + 1) \o <<"-">>
       \o FourDigits(sy + ((i - 1) \div MonthsPerYear)) \o VCISuffix]

LabelsOf(yy) ==
  [n \in 1 .. MonthsPerYear |-> TwoDigits(n) \o <<"-">> \o FourDigits(yy)]

(***************************************************************************)
(* C6.  The two local helpers are pure and deterministic.  The step that   *)
(* calls create_band_names() leaves new_names equal to a function of       *)
(* start_year and end_year alone and changes nothing but the names the     *)
(* cell assigns (new_names, vci_img); the step that builds the text labels *)
(* leaves text equal to a function of y alone and changes neither the      *)
(* configuration nor any earlier result.                                   *)
(***************************************************************************)
C6_HelpersPure ==
  [][ /\ (pc = "rename" /\ pc' = "map") =>
           /\ new_names' = NamesOf(start_year, end_year)
           /\ UNCHANGED <<start_year, end_year, catalog, MODIS_NDVI,
                          NDVI_Monthly, NDVI_mon_min, NDVI_mon_max, vci, y,
                          text, fps, video_vci, videoArgs, saved_gif, dur,
                          out_gif, requests, errors>>
      /\ (pc = "animate" /\ pc' = "label") =>
           /\ text' = LabelsOf(y')
           /\ UNCHANGED <<start_year, end_year, catalog, MODIS_NDVI,
                          NDVI_Monthly, NDVI_mon_min, NDVI_mon_max, vci,
                          vci_img, new_names, dur, out_gif>>
    ]_vars

\* both helpers have run, under a configuration narrower than the loaded
\* data and a y outside it
C6_Witness ==
  /\ pc = "label"
  /\ start_year = end_year
  /\ y # start_year
  /\ \E i \in 1 .. Len(MODIS_NDVI) : MODIS_NDVI[i].time.year # start_year
  /\ new_names = NamesOf(start_year, end_year)
  /\ Len(new_names) = MonthsPerYear
  /\ text = LabelsOf(y)

(***************************************************************************)
(* C7.  The animation text labels are exactly 12 strings, the n-th being   *)
(* the month n zero-padded to two digits, '-', and the animated year y;    *)
(* when start_year <= y <= end_year, video_vci has exactly 12 frames in    *)
(* month order 1..12, and the n-th label is stamped on the frame whose     *)
(* month is n and whose year is y.                                         *)
(***************************************************************************)
C7_LabelsMatchFrames ==
  Ran("animate") =>
    /\ Len(text) = MonthsPerYear
    /\ \A n \in 1 .. Len(text) :
         /\ IsMonthYear(text[n])
         /\ MonthIn(text[n]) = n
         /\ YearIn(text[n]) = y
    /\ (start_year <= y /\ y <= end_year) =>
         /\ Len(video_vci) = MonthsPerYear
         /\ \A n \in 1 .. Len(video_vci) :
              video_vci[n].props["month"] = n /\ video_vci[n].props["year"] = y
         /\ (Ran("label") /\ ~AnyErr(video_vci)) =>
              /\ Len(out_gif) = MonthsPerYear
              /\ \A n \in 1 .. Len(out_gif) :
                   /\ out_gif[n].label = text[n]
                   /\ out_gif[n].month = MonthIn(text[n])
                   /\ out_gif[n].year = YearIn(text[n])

\* the labelled GIF has been written for a year other than the first
C7_Witness ==
  /\ Ran("label")
  /\ start_year < y
  /\ y <= end_year
  /\ Len(out_gif) = MonthsPerYear
  /\ out_gif[MonthsPerYear].label = text[MonthsPerYear]
  /\ out_gif[MonthsPerYear].month = MonthsPerYear

(***************************************************************************)
(* C8.  Server-side computation is materialized only at explicit output    *)
(* points: no step before Map.addLayer sends a request, every step other   *)
(* than the Map.addLayer and geemap.download_ee_video cells leaves the     *)
(* requests as they are, and every request made is one of those two calls. *)
(***************************************************************************)
C8_MaterializedAtOutputs ==
  [][ /\ pc \notin {"map", "animate"} => requests' = requests
      /\ \A i \in 1 .. Len(requests') :
           /\ requests'[i].call \in {"addLayer", "download_ee_video"}
           /\ CellIndex(requests'[i].cell) >= CellIndex("map")
    ]_vars

\* the whole graph was declared without a request, then both output points asked
C8_Witness ==
  /\ pc = "label"
  /\ Len(vci_img.bands) = Len(new_names)
  /\ Len(new_names) > 0
  /\ Len(requests) = 2
  /\ requests[1] = [cell |-> "map", call |-> "addLayer"]
  /\ requests[2] = [cell |-> "animate", call |-> "download_ee_video"]

(***************************************************************************)
(* C9.  An error of evaluation introduced by an earlier declared operation *)
(* (here inside vci_calc, whose select finds no band for a month without   *)
(* data) is not reported at the step that declares it: nothing is reported *)
(* before the first materializing step, every server error is reported by  *)
(* a materializing call, and the first materializing step that depends on  *)
(* the operation, Map.addLayer(vci_img), reports it.                       *)
(***************************************************************************)
C9_ErrorsAtMaterialization ==
  /\ ~Ran("map") => errors = <<>>
  /\ \A i \in 1 .. Len(errors) :
       errors[i].kind = "ee" =>
         /\ errors[i].call \in {"addLayer", "download_ee_video"}
         /\ errors[i].cell \in {"map", "animate"}
  /\ (Ran("map") /\ AnyErr(vci)) =>
       /\ Len(errors) >= 1
       /\ errors[1] = [cell |-> "map", call |-> "addLayer", kind |-> "ee"]
  /\ (Ran("map") /\ ~AnyErr(vci)) =>
       \A i \in 1 .. Len(errors) : errors[i].cell # "map"

\* vci_calc declared a failing operation two steps before it was reported
C9_Witness ==
  /\ pc = "animate"
  /\ AnyErr(vci)
  /\ vci_img.err
  /\ errors = <<[cell |-> "map", call |-> "addLayer", kind |-> "ee"]>>

\* a <= b for two numbers in limbs without leading zero limbs
RECURSIVE BigLeq(_, _)
BigLeq(a, b) ==
  IF Len(a) # Len(b) THEN Len(a) < Len(b)
  ELSE IF a = <<>> THEN TRUE
       ELSE IF a[1] # b[1] THEN a[1] < b[1]
            ELSE BigLeq(Tail(a), Tail(b))

\* the double after f, when it has the exponent of f
NextUp(f) == [sig |-> BigMulSmall(f.sig, 1, 2), exp |-> f.exp]

\* dur * fps and 1000, both as multiples of 2^(dur.exp - 53)
DurTimesFps == BigMulSmall(dur.sig, fps, 0)
SecondScaled == ShiftLeft(BigOfNat(MsPerSecond), DoubleBits - dur.exp)

\* C10 as the spec states it, with dur * fps evaluated as Python evaluates it
C10_ExactForEveryFps ==
  Ran("label") => FloatMulInt(dur, fps) = FloatOfNat(MsPerSecond)

(***************************************************************************)
(* C10.  The per-frame duration passed to add_text_to_gif is               *)
(* dur = 1000/fps in double precision, fps being the value given as        *)
(* framesPerSecond: dur is the double nearest to 1000/fps (it differs from *)
(* 1000/fps by at most half a unit in its last place), dur * fps is 1000   *)
(* exactly when fps divides 1000, and for every positive fps dur * fps     *)
(* evaluated in double arithmetic is 1000 or one of its two neighbours.    *)
(***************************************************************************)
C10_DurationTimesFps ==
  Ran("label") =>
    /\ fps = videoArgs.framesPerSecond
    /\ BigBitLen(dur.sig) = DoubleBits + 1
    /\ BigLeq(DurTimesFps, BigMulSmall(SecondScaled, 1, fps))
    /\ BigLeq(SecondScaled, BigMulSmall(DurTimesFps, 1, fps))
    /\ MsPerSecond % fps = 0 =>
         /\ DurTimesFps = SecondScaled
         /\ FloatMulInt(dur, fps) = FloatOfNat(MsPerSecond)
    /\ \/ FloatMulInt(dur, fps) = FloatOfNat(MsPerSecond)
       \/ FloatMulInt(dur, fps) = NextUp(FloatOfNat(MsPerSecond))
       \/ NextUp(FloatMulInt(dur, fps)) = FloatOfNat(MsPerSecond)

\* a frame rate for which dur * fps is not 1000
C10_Witness ==
  /\ Ran("label")
  /\ MsPerSecond % fps # 0
  /\ FloatMulInt(dur, fps) = NextUp(FloatOfNat(MsPerSecond))


\* the indicators the notebook announces, and the band names the collections
\* bound so far hold
VHI == <<"V", "H", "I">>
TCI == <<"T", "C", "I">>

BandsIn(col) ==
  UNION {{col[i].bands[j].name : j \in 1 .. Len(col[i].bands)} : i \in 1 .. Len(col)}

\* an indicator is calculated once a collection the notebook has bound holds a
\* band of that indicator
Calculated(ind) ==
  ind \in BandsIn(MODIS_NDVI) \cup BandsIn(NDVI_Monthly) \cup BandsIn(NDVI_mon_min)
            \cup BandsIn(NDVI_mon_max) \cup BandsIn(vci) \cup BandsIn(video_vci)

(***************************************************************************)
(* C11.  A complete run of the notebook calculates each of the three       *)
(* indicators it announces: VCI, VHI and TCI.  Stated of the runs with     *)
(* start_year <= end_year that end without an error.                       *)
(***************************************************************************)
C11_AllIndicators ==
  (pc = "done" /\ start_year <= end_year /\ errors = <<>>) =>
    /\ Calculated(VCI)
    /\ Calculated(VHI)
    /\ Calculated(TCI)


\* the places of col whose image has every property of `want` with its value
Places(col, want) ==
  {i \in 1 .. Len(col) :
     \A k \in DOMAIN want : k \in DOMAIN col[i].props /\ col[i].props[k] = want[k]}

(***************************************************************************)
(* C12.  In vci_calc, for every year y of start_year..end_year and month m *)
(* in 1..12, filtering the monthly collection by year = y and month = m    *)
(* selects exactly one image, and filtering each of the max and min        *)
(* collections by month = m selects exactly one image, so the mean of each *)
(* filtered collection has the pixel values of that image.  Stated of the  *)
(* arguments vci_calc is about to be called with.                          *)
(***************************************************************************)
C12_FiltersSelectOne ==
  pc = "vci" =>
    /\ \A yr \in start_year .. end_year, m \in 1 .. MonthsPerYear :
         LET at == Places(NDVI_Monthly, [year |-> yr, month |-> m])
             got == FilterEq(FilterEq(NDVI_Monthly, "year", yr), "month", m)
         IN /\ Cardinality(at) = 1
            /\ Len(got) = 1
            /\ \A i \in at : got[1] = NDVI_Monthly[i]
                               /\ Mean(got).bands = NDVI_Monthly[i].bands
    /\ \A m \in 1 .. MonthsPerYear :
         LET lo == Places(NDVI_mon_min, [month |-> m])
             hi == Places(NDVI_mon_max, [month |-> m])
             min_got == FilterEq(NDVI_mon_min, "month", m)
             max_got == FilterEq(NDVI_mon_max, "month", m)
         IN /\ Cardinality(lo) = 1 /\ Cardinality(hi) = 1
            /\ Len(min_got) = 1 /\ Len(max_got) = 1
            /\ \A i \in lo : Mean(min_got).bands = NDVI_mon_min[i].bands
            /\ \A i \in hi : Mean(max_got).bands = NDVI_mon_max[i].bands

\* two years of monthly means, the selected image having a value
C12_Witness ==
  /\ pc = "vci"
  /\ start_year < end_year
  /\ LET got == FilterEq(FilterEq(NDVI_Monthly, "year", end_year), "month", MonthsPerYear)
     IN /\ Len(got) = 1
        /\ got[1].bands # <<>>
        /\ Mean(got).bands = NDVI_Monthly[Len(NDVI_Monthly)].bands


\* `after` is `before` scaled by 0.0001 with as many images, in the same
\* order, each keeping its 'month' and, where present, 'year'
ScaledKeeping(before, after) ==
  /\ Len(after) = Len(before)
  /\ \A i \in 1 .. Len(before) :
       /\ \A k \in {"month", "year"} \cap DOMAIN before[i].props :
            k \in DOMAIN after[i].props /\ after[i].props[k] = before[i].props[k]
       /\ Len(after[i].bands) = Len(before[i].bands)
       /\ \A b \in 1 .. Len(before[i].bands) :
            after[i].bands[b].val[1] * before[i].bands[b].val[2] * ScaleDen
              = before[i].bands[b].val[1] * after[i].bands[b].val[2]

(***************************************************************************)
(* C13.  Applying the 0.0001 scale factor to NDVI_Monthly, NDVI_mon_min    *)
(* and NDVI_mon_max preserves the image properties: every image keeps its  *)
(* 'month' (and 'year' where present), and the number and order of the     *)
(* images are unchanged.  Stated of each scaled collection when the cell   *)
(* that scales it has just run, against the collection before scaling.     *)
(***************************************************************************)
C13_ScalingKeepsProperties ==
  /\ pc = "def_minmax" =>
       /\ ScaledKeeping(col2monthly(MODIS_NDVI), NDVI_Monthly)
       /\ \A i \in 1 .. Len(NDVI_Monthly) :
            {"month", "year"} \subseteq DOMAIN NDVI_Monthly[i].props
  /\ pc = "def_vci" =>
       /\ ScaledKeeping(min_monthly(MODIS_NDVI), NDVI_mon_min)
       /\ ScaledKeeping(max_monthly(MODIS_NDVI), NDVI_mon_max)
       /\ \A i \in 1 .. Len(NDVI_mon_min) : "month" \in DOMAIN NDVI_mon_min[i].props
       /\ \A i \in 1 .. Len(NDVI_mon_max) : "month" \in DOMAIN NDVI_mon_max[i].props

\* scaled extrema whose value changed and whose month did not
C13_Witness ==
  /\ pc = "def_vci"
  /\ Len(NDVI_mon_max) = MonthsPerYear
  /\ \E i \in 1 .. Len(NDVI_mon_max) :
       /\ NDVI_mon_max[i].props["month"] = i
       /\ max_monthly(MODIS_NDVI)[i].props["month"] = i
       /\ NDVI_mon_max[i].bands # <<>>
       /\ NDVI_mon_max[i].bands # max_monthly(MODIS_NDVI)[i].bands
  /\ Len(NDVI_Monthly) > MonthsPerYear
  /\ NDVI_Monthly[Len(NDVI_Monthly)].props["year"] = end_year


\* name a is bound no later than name b
BoundBefore(a, b) == b \in defined => a \in defined

(***************************************************************************)
(* C14.  The workflow is a linear pipeline: in a top-to-bottom run every   *)
(* name the next stage reads has been bound by an earlier stage, so no     *)
(* stage reads a variable defined by a later one, and the stages are bound *)
(* in the order MODIS_NDVI, NDVI_Monthly, NDVI_mon_min and NDVI_mon_max,   *)
(* vci, vci_img, the map layer, the animation.                             *)
(***************************************************************************)
C14_LinearPipeline ==
  /\ Reads(pc) \subseteq defined
  /\ BoundBefore("MODIS_NDVI", "NDVI_Monthly")
  /\ BoundBefore("NDVI_Monthly", "NDVI_mon_min")
  /\ BoundBefore("NDVI_Monthly", "NDVI_mon_max")
  /\ BoundBefore("NDVI_mon_min", "vci")
  /\ BoundBefore("NDVI_mon_max", "vci")
  /\ BoundBefore("vci", "vci_img")
  /\ BoundBefore("vci_img", "Map")
  /\ BoundBefore("Map", "video_vci")

\* the VCI stage is about to read the outputs of the two stages before it
C14_Witness ==
  /\ pc = "vci"
  /\ {"NDVI_Monthly", "NDVI_mon_min", "NDVI_mon_max"} \subseteq Reads(pc) \cap defined
  /\ "vci" \notin defined
  /\ NDVI_Monthly # <<>>


\* every month of every year of start_year..end_year has a composite
CompleteYears ==
  \A yr \in start_year .. end_year, m \in 1 .. MonthsPerYear : RawOfMonth(yr, m) # <<>>

(***************************************************************************)
(* C15.  Band renaming is aligned with the data: when every month of every *)
(* year of start_year..end_year has data, vci.toBands() has exactly        *)
(* len(create_band_names()) bands, and for every position k the k-th new   *)
(* name 'mm-yyyy_VCI' names the band that came from the VCI image whose    *)
(* month is mm and whose year is yyyy.  Stated when the rename cell has    *)
(* just run.                                                               *)
(***************************************************************************)
C15_RenameAligned ==
  (pc = "map" /\ start_year <= end_year /\ CompleteYears) =>
    /\ ~vci_img.err
    /\ Len(ToBands(vci).bands) = Len(new_names)
    /\ Len(vci_img.bands) = Len(new_names)
    /\ Len(vci) = Len(new_names)
    /\ \A k \in 1 .. Len(new_names) :
         /\ vci_img.bands[k].name = new_names[k]
         /\ vci_img.bands[k].val = vci[k].bands[1].val
         /\ IsBandName(new_names[k])
         /\ NameMonth(new_names[k]) = vci[k].props["month"]
         /\ NameYear(new_names[k]) = vci[k].props["year"]

\* two complete years renamed: band 13 is January of the second year
C15_Witness ==
  /\ pc = "map"
  /\ start_year < end_year
  /\ CompleteYears
  /\ Len(vci_img.bands) = 2 * MonthsPerYear
  /\ NameMonth(vci_img.bands[MonthsPerYear + 1].name) = 1
  /\ NameYear(vci_img.bands[MonthsPerYear + 1].name) = end_year
  /\ vci[MonthsPerYear + 1].props["year"] = end_year


\* the VCI collection the notebook would build without the three scalings
UnscaledVci ==
  MapCol(vci_calc(col2monthly(MODIS_NDVI), max_monthly(MODIS_NDVI),
                  min_monthly(MODIS_NDVI)),
         RenameVCI)

C17_EmptyWhenReversed ==
  /\ pc = "map" =>
       /\ start_year > end_year => new_names = <<>>
       /\ Len(new_names) % MonthsPerYear = 0
       /\ start_year <= end_year => Len(new_names) >= MonthsPerYear
  /\ \A i \in 1 .. Len(errors) : errors[i].cell # "rename"

\* a reversed configuration went through the rename cell without an error
C17_Witness ==
  /\ pc = "map"
  /\ start_year > end_year
  /\ "new_names" \in defined
  /\ new_names = <<>>
  /\ errors = <<>>

====
